---- MODULE Spec2Model ----
(***************************************************************************)
(* wordg: the two roles of a Wordle-style game.                            *)
(*   runGame   (--run)   holds a secret word and scores guesses.           *)
(*   doGuesses (--guess) proposes guesses and narrows them from verdicts.  *)
(* Words, guesses and verdict tokens are sequences of one-character        *)
(* strings (the program slices its strings one byte at a time).            *)
(***************************************************************************)
EXTENDS Integers, Sequences, FiniteSets, TLC

\* ------------------------------------------------------------------ bounds
\* The program works over 26 letters; the model keeps the first NumLetters.
NumLetters == 5
\* Number of dictionary words the model keeps (a prefix of WordList).
MaxWords == 14
\* --word values of length 5 are drawn over the first ArgLetters letters.
ArgLetters == 3

\* --------------------------------------------------------------- constants
LETTERS_IN_WORD == 5

alphabet ==
  << "a", "b", "c", "d", "e", "f", "g", "h", "i", "j", "k", "l", "m",
     "n", "o", "p", "q", "r", "s", "t", "u", "v", "w", "x", "y", "z" >>

\* The letters every validLetters set is populated with.
Alphabet == { alphabet[i] : i \in 1..NumLetters }

\* The injected dictionary: an ordered sequence of distinct 5-letter words.
WordList ==
  << << "a", "b", "c", "d", "e" >>,
     << "c", "e", "a", "d", "c" >>,
     << "d", "c", "e", "a", "b" >>,
     << "b", "d", "a", "c", "c" >>,
     << "d", "d", "b", "e", "c" >>,
     << "b", "a", "d", "c", "b" >>,
     << "d", "c", "e", "b", "b" >>,
     << "b", "c", "d", "c", "a" >>,
     << "b", "d", "b", "a", "c" >>,
     << "c", "d", "b", "a", "a" >>,
     << "e", "d", "a", "e", "c" >>,
     << "d", "e", "e", "c", "a" >>,
     << "b", "e", "c", "b", "a" >>,
     << "d", "c", "a", "c", "e" >>,
     << "d", "a", "e", "e", "b" >>,
     << "c", "b", "d", "a", "d" >> >>

AllWords == SubSeq(WordList, 1, MaxWords)

Range(s) == { s[i] : i \in 1..Len(s) }

Positions == 1..LETTERS_IN_WORD

\* The quit token and the winning token.
Quit == << "q" >>
AllExact == << "y", "y", "y", "y", "y" >>

\* ------------------------------------------------------------------ inputs
\* Every 5-character token over {y,p,n}.
VerdictTokens == [Positions -> {"y", "p", "n"}]

\* Lines that are neither the quit token nor a token over {y,p,n}.
MalformedTokens ==
  { << >>,
    << "y", "n", "p", "n" >>,
    << "y", "n", "p", "n", "n", "n" >>,
    << "x", "n", "n", "n", "n" >>,
    << "n", "y", "x", "p", "n" >>,
    << "p", "n", "n", "n", "x" >> }

\* Lines the verdict input source may supply to the solver.
ResponseLines == VerdictTokens \cup MalformedTokens \cup {Quit}

\* Values of --word: "" (choose at random) is drawn in Init as a dictionary
\* word; any other string is taken as given.
WordArgs ==
  [Positions -> { alphabet[i] : i \in 1..ArgLetters }] \cup { << "a", "b" >> }

\* Lines the guess input source may supply to the oracle.
GuessLines ==
  Range(AllWords) \cup
  { Quit, << >>, << "a", "b", "c" >>,
    << "a", "a", "a", "a", "a" >>, << "a", "b", "c", "a", "b", "c" >> }

\* ------------------------------------------------------------------- state
VARIABLES
  validLetters,     \* doGuesses: per position, the set of letters still valid
  requiredLetters,  \* global map letter -> minimum number of occurrences
  myGuess,          \* doGuesses: the guess proposed in this iteration
  response,         \* doGuesses: the last line read as a response
  pc,               \* position of doGuesses
  smsg,             \* doGuesses: the last diagnostic printed
  word,             \* runGame: the secret word
  guess,            \* runGame: the last line read as a guess
  responseStr,      \* runGame: the last result printed
  opc,              \* position of runGame
  omsg,             \* runGame: the last line printed
  wire,             \* the line in flight between the two programs, if any
  exactSeen,        \* history: per position, the letters a "y" was applied to
  absentGone,       \* history: letters an "n" left in no position's set
  tried,            \* history: the guesses a y/p/n response was processed for
  nVerdicts         \* history: the number of y/p/n responses processed

vars == << validLetters, requiredLetters, myGuess, response, pc, smsg,
           word, guess, responseStr, opc, omsg, wire, exactSeen, absentGone,
           tried, nVerdicts >>

solverVars == << validLetters, requiredLetters, myGuess, response, pc, smsg,
                 exactSeen, absentGone, tried, nVerdicts >>
oracleVars == << word, guess, responseStr, opc, omsg >>

NoLine == [to |-> "none", line |-> << >>]

\* ------------------------------------------------------------------ runGame
\* The look-up that takes every word for a known word.
isKnownWordAlways(w) == TRUE

isKnownWord(w) == \E i \in 1..Len(AllWords) : AllWords[i] = w

\* The first scan stopping one position short (j < len(guess) - 1).
exactPassShort(secret, g) ==
  [j \in Positions |->
     IF j < LETTERS_IN_WORD /\ g[j] = secret[j] THEN "y" ELSE " "]

\* First scan: the correct letters in the correct places.
exactPass(secret, g) ==
  [j \in Positions |-> IF g[j] = secret[j] THEN "y" ELSE " "]

\* Does g[j] occur elsewhere in the secret, at a position not marked "y"?
foundElsewhere(secret, g, resp, j) ==
  \E k \in 1..Len(secret) :
    k # j /\ g[j] = secret[k] /\ resp[k] # "y"

\* The second scan without its test guessCh != wordCh: it also rewrites the
\* positions the first scan marked "y".
RECURSIVE presentPassUnguarded(_, _, _, _)
presentPassUnguarded(secret, g, resp, j) ==
  IF j > Len(g) THEN resp
  ELSE presentPassUnguarded(secret, g,
         [resp EXCEPT ![j] =
            IF \E k \in 1..Len(secret) :
                 k # j /\ g[j] = secret[k] /\ resp[k] # "y"
            THEN "p" ELSE "n"],
         j + 1)

\* Second scan, from position j on: every position whose letter differs from
\* the secret's becomes "p" or "n".
RECURSIVE presentPass(_, _, _, _)
presentPass(secret, g, resp, j) ==
  IF j > Len(g) THEN resp
  ELSE IF g[j] # secret[j]
       THEN presentPass(secret, g,
              [resp EXCEPT ![j] =
                 IF foundElsewhere(secret, g, resp, j) THEN "p" ELSE "n"],
              j + 1)
       ELSE presentPass(secret, g, resp, j + 1)

\* The slices the scans take of the secret fail at run time when the secret
\* (a --word value) is shorter than the guess, and the look-up of response[k]
\* fails when a letter of the guess matches the secret beyond position 5.
scorePanics(secret, g) ==
  \/ Len(secret) < Len(g)
  \/ \E j \in 1..Len(g) : \E k \in (LETTERS_IN_WORD + 1)..Len(secret) :
       g[j] # secret[j] /\ g[j] = secret[k]

\* The response runGame computes for a 5-letter guess.
score(secret, g) == presentPass(secret, g, exactPass(secret, g), 1)

\* "q": the loop ends.
OracleQuitEff ==
  /\ opc = "AwaitingGuess"
  /\ guess' = Quit
  /\ opc' = "Quit"
  /\ omsg' = "The word was"
  /\ UNCHANGED << word, responseStr >>

\* A line of the wrong length, or not a known word: a diagnostic, no result.
OracleRejectEff(g) ==
  /\ opc = "AwaitingGuess"
  /\ g # Quit
  /\ Len(g) # 5 \/ ~isKnownWord(g)
  /\ guess' = g
  /\ omsg' = IF Len(g) # 5
             THEN "Guesses must be exactly 5 lowercase letters"
             ELSE "is not a valid word"
  /\ UNCHANGED << word, responseStr, opc >>

\* A known word: it is scored and the result printed.
OracleScoreEff(g) ==
  /\ opc = "AwaitingGuess"
  /\ g # Quit
  /\ Len(g) = 5
  /\ isKnownWord(g)
  /\ guess' = g
  /\ IF scorePanics(word, g)
     THEN /\ opc' = "Crashed"
          /\ omsg' = "panic"
          /\ UNCHANGED responseStr
     ELSE /\ responseStr' = score(word, g)
          /\ opc' = IF responseStr' = AllExact THEN "Won" ELSE "AwaitingGuess"
          /\ omsg' = IF responseStr' = AllExact THEN "Congratulations!"
                     ELSE "Result"
  /\ UNCHANGED word

\* ---------------------------------------------------------- processResponse
\* Entries of a letter -> count map; a letter outside the map counts 0.
countOf(m, ch) == IF ch \in DOMAIN m THEN m[ch] ELSE 0

\* The removal loop stopping one position short (j < LETTERS_IN_WORD - 1).
removeAllButLast(vl, ch) ==
  [j \in Positions |-> IF j < LETTERS_IN_WORD THEN vl[j] \ {ch} ELSE vl[j]]

\* respCh = "n": the guessed letter leaves the set of every position.
removeEverywhere(vl, ch) == [j \in Positions |-> vl[j] \ {ch}]

\* respCh = "y": RemoveAll, then Add, on this position's set.
setExact(vl, ipos, ch) == [vl EXCEPT ![ipos] = {ch}]

\* The "p" branch removing the letter from every position, as "n" does.
removeAtAll(vl, ipos, ch) == [j \in Positions |-> vl[j] \ {ch}]

\* The "p" branch without its Remove.
removeAtNone(vl, ipos, ch) == vl

\* respCh = "p": the guessed letter leaves this position's set.
removeAt(vl, ipos, ch) == [vl EXCEPT ![ipos] = @ \ {ch}]

\* The tally set to 1 whether or not the letter is already in it.
bumpToOne(counts, ch) ==
  [x \in DOMAIN counts \cup {ch} |-> IF x = ch THEN 1 ELSE counts[x]]

\* charToCountThisGuess[guessCh]++ (or = 1 when the letter is new).
bump(counts, ch) ==
  [x \in DOMAIN counts \cup {ch} |->
     IF x = ch THEN countOf(counts, ch) + 1 ELSE counts[x]]

\* The loop over the letters of the response, from position ipos on.
\* acc = [vl, counts, msg]: the sets, this guess's tally, the last diagnostic.
RECURSIVE responseLoop(_, _, _, _)
responseLoop(acc, g, r, ipos) ==
  IF ipos > LETTERS_IN_WORD THEN acc
  ELSE LET respCh == r[ipos]
           guessCh == g[ipos]
       IN  IF respCh = "n"
           THEN responseLoop([acc EXCEPT !.vl = removeEverywhere(@, guessCh)],
                             g, r, ipos + 1)
           ELSE IF respCh = "y"
           THEN responseLoop([acc EXCEPT !.vl = setExact(@, ipos, guessCh),
                                         !.counts = bump(@, guessCh)],
                             g, r, ipos + 1)
           ELSE IF respCh = "p"
           THEN responseLoop([acc EXCEPT !.vl = removeAt(@, ipos, guessCh),
                                         !.counts = bump(@, guessCh)],
                             g, r, ipos + 1)
           ELSE responseLoop([acc EXCEPT !.msg = "Unexpected response char"],
                             g, r, ipos + 1)

\* The tally of this guess added to the count already required.
addCount(oldCount, count) == oldCount + count

\* The tally of this guess stored without the test count > oldCount.
overwriteCount(oldCount, count) == count

\* The tally of this guess raises requiredLetters, never lowers it.
mergeCount(oldCount, count) == IF count > oldCount THEN count ELSE oldCount

applyCounts(req, counts) ==
  [x \in DOMAIN req \cup DOMAIN counts |->
     IF x \in DOMAIN counts
     THEN IF x \in DOMAIN req THEN mergeCount(req[x], counts[x])
          ELSE counts[x]
     ELSE req[x]]

\* processResponse taking a response for the answer when it starts with "y".
processResponseFirstExact(vl, req, g, r) ==
  IF Len(r) > 0 /\ r[1] = "y"
  THEN [foundAnswer |-> TRUE, panic |-> FALSE, vl |-> vl, req |-> req,
        msg |-> ""]
  ELSE IF Len(r) # LETTERS_IN_WORD
  THEN [foundAnswer |-> FALSE, panic |-> FALSE, vl |-> vl, req |-> req,
        msg |-> "Response must be of length 5"]
  ELSE IF Len(g) < LETTERS_IN_WORD
  THEN [foundAnswer |-> FALSE, panic |-> TRUE, vl |-> vl, req |-> req,
        msg |-> "panic"]
  ELSE LET acc == responseLoop([vl |-> vl, counts |-> << >>, msg |-> ""],
                               g, r, 1)
       IN  [foundAnswer |-> FALSE, panic |-> FALSE, vl |-> acc.vl,
            req |-> applyCounts(req, acc.counts), msg |-> acc.msg]

\* processResponse without its length test: the letters of a short response
\* are processed and the missing ones are read as "n"; a long response is cut.
processResponseAnyLength(vl, req, g, r) ==
  IF r = AllExact
  THEN [foundAnswer |-> TRUE, panic |-> FALSE, vl |-> vl, req |-> req,
        msg |-> ""]
  ELSE IF Len(g) < LETTERS_IN_WORD
  THEN [foundAnswer |-> FALSE, panic |-> TRUE, vl |-> vl, req |-> req,
        msg |-> "panic"]
  ELSE LET padded == [i \in Positions |-> IF i <= Len(r) THEN r[i] ELSE "n"]
           acc == responseLoop([vl |-> vl, counts |-> << >>, msg |-> ""],
                               g, padded, 1)
       IN  [foundAnswer |-> FALSE, panic |-> FALSE, vl |-> acc.vl,
            req |-> applyCounts(req, acc.counts), msg |-> acc.msg]

\* processResponse(&validLetters, myGuess, response): foundAnswer, the new
\* sets and map, the diagnostic printed, and whether the call panics (the
\* slice myGuess[ipos:ipos+1] of an empty guess is out of range; that is the
\* first thing the loop touches, so nothing has been changed by then).
processResponse(vl, req, g, r) ==
  IF r = AllExact
  THEN [foundAnswer |-> TRUE, panic |-> FALSE, vl |-> vl, req |-> req,
        msg |-> ""]
  ELSE IF Len(r) # LETTERS_IN_WORD
  THEN [foundAnswer |-> FALSE, panic |-> FALSE, vl |-> vl, req |-> req,
        msg |-> "Response must be of length 5"]
  ELSE IF Len(g) < LETTERS_IN_WORD
  THEN [foundAnswer |-> FALSE, panic |-> TRUE, vl |-> vl, req |-> req,
        msg |-> "panic"]
  ELSE LET acc == responseLoop([vl |-> vl, counts |-> << >>, msg |-> ""],
                               g, r, 1)
       IN  [foundAnswer |-> FALSE, panic |-> FALSE, vl |-> acc.vl,
            req |-> applyCounts(req, acc.counts), msg |-> acc.msg]

\* ---------------------------------------------------------------- doGuesses
\* Number of occurrences of ch in w (makeMapFromWord, read at one letter).
makeMapFromWord(w) ==
  [ch \in Range(w) |-> Cardinality({ j \in 1..Len(w) : w[j] = ch })]

\* The position test leaving the scan after the first letter.
matchesFirstPosition(vl, w) == w[1] \in vl[1]

\* Every letter of the candidate is valid at its position.
matchesPositions(vl, w) == \A ilet \in 1..Len(w) : w[ilet] \in vl[ilet]

\* The selection without the test on requiredLetters.
matchesRequiredSkipped(req, w) == TRUE

\* The candidate has every required letter, often enough.
matchesRequired(req, w) ==
  \A letter \in DOMAIN req :
    /\ letter \in DOMAIN makeMapFromWord(w)
    /\ ~(makeMapFromWord(w)[letter] < req[letter])

\* The scan of AllWords from index i on: the first word that matches, or the
\* empty string.
RECURSIVE firstMatch(_, _, _, _)
firstMatch(words, vl, req, i) ==
  IF i > Len(words) THEN << >>
  ELSE IF matchesPositions(vl, words[i]) /\ matchesRequired(req, words[i])
       THEN words[i]
       ELSE firstMatch(words, vl, req, i + 1)

selectNext(words, vl, req) == firstMatch(words, vl, req, 1)

\* Top of the loop: the next guess is chosen and printed.
ProposeEff ==
  /\ pc = "Proposing"
  /\ myGuess' = selectNext(AllWords, validLetters, requiredLetters)
  /\ smsg' = IF Len(myGuess') = 0 THEN "I could not find a matching word"
             ELSE ""
  /\ pc' = "AwaitingVerdict"
  /\ UNCHANGED << validLetters, requiredLetters, response,
                  exactSeen, absentGone, tried, nVerdicts >>

\* The loop without its test for "q": the line is processed as a response.
SolverQuitProcessed ==
  /\ pc = "AwaitingVerdict"
  /\ response' = Quit
  /\ pc' = "Proposing"
  /\ smsg' = "Response must be of length 5"
  /\ UNCHANGED << validLetters, requiredLetters, myGuess,
                  exactSeen, absentGone, tried, nVerdicts >>

\* The response read is "q": the loop ends, nothing is processed.
SolverQuitEff ==
  /\ pc = "AwaitingVerdict"
  /\ response' = Quit
  /\ pc' = "Quit"
  /\ smsg' = ""
  /\ UNCHANGED << validLetters, requiredLetters, myGuess,
                  exactSeen, absentGone, tried, nVerdicts >>

\* Does processResponse run its loop over the letters of r for guess g?
loopRuns(g, r) ==
  r # AllExact /\ Len(r) = LETTERS_IN_WORD /\ Len(g) >= LETTERS_IN_WORD

\* Any other response is handed to processResponse.
IngestEff(r) ==
  /\ pc = "AwaitingVerdict"
  /\ r # Quit
  /\ response' = r
  /\ LET res == processResponse(validLetters, requiredLetters, myGuess, r)
     IN  /\ validLetters' = res.vl
         /\ requiredLetters' = res.req
         /\ smsg' = res.msg
         /\ pc' = IF res.panic THEN "Crashed"
                  ELSE IF res.foundAnswer THEN "Won"
                  ELSE "Proposing"
         /\ exactSeen' =
              IF loopRuns(myGuess, r)
              THEN [i \in Positions |->
                      IF r[i] = "y" THEN exactSeen[i] \cup {myGuess[i]}
                      ELSE exactSeen[i]]
              ELSE exactSeen
         /\ absentGone' =
              IF loopRuns(myGuess, r)
              THEN absentGone \cup
                   { myGuess[i] : i \in { k \in Positions :
                        /\ r[k] = "n"
                        /\ \A j \in Positions : myGuess[k] \notin res.vl[j] } }
              ELSE absentGone
         /\ tried' =
              IF loopRuns(myGuess, r) /\ r \in VerdictTokens
              THEN tried \cup {myGuess} ELSE tried
         /\ nVerdicts' =
              IF loopRuns(myGuess, r) /\ r \in VerdictTokens
              THEN nVerdicts + 1 ELSE nVerdicts
  /\ UNCHANGED myGuess

\* ------------------------------------------------- the programs on their own
Propose == ProposeEff /\ UNCHANGED oracleVars /\ UNCHANGED wire

SolverQuit == SolverQuitEff /\ UNCHANGED oracleVars /\ UNCHANGED wire

Ingest(r) == IngestEff(r) /\ UNCHANGED oracleVars /\ UNCHANGED wire

OracleQuit == OracleQuitEff /\ UNCHANGED solverVars /\ UNCHANGED wire

OracleReject(g) == OracleRejectEff(g) /\ UNCHANGED solverVars /\ UNCHANGED wire

OracleScore(g) == OracleScoreEff(g) /\ UNCHANGED solverVars /\ UNCHANGED wire

\* -------------------------------------------------------------------- main
InitSolver ==
  /\ validLetters = [i \in Positions |-> Alphabet]
  /\ requiredLetters = << >>
  /\ myGuess = << >>
  /\ response = << >>
  /\ smsg = ""
  /\ exactSeen = [i \in Positions |-> {}]
  /\ absentGone = {}
  /\ tried = {}
  /\ nVerdicts = 0

InitOracle ==
  /\ guess = << >>
  /\ responseStr = << >>
  /\ omsg = ""

\* main, --guess: doGuesses.
InitGuess ==
  /\ InitSolver
  /\ InitOracle
  /\ pc = "Proposing"
  /\ opc = "Idle"
  /\ word = << >>
  /\ wire = NoLine

\* main, --run: runGame(settings.word).
InitRun ==
  /\ InitSolver
  /\ InitOracle
  /\ pc = "Idle"
  /\ opc = "AwaitingGuess"
  /\ word \in WordArgs \cup Range(AllWords)
  /\ wire = NoLine

Init == InitGuess \/ InitRun

Next ==
  \/ Propose
  \/ SolverQuit
  \/ \E r \in ResponseLines : Ingest(r)
  \/ OracleQuit
  \/ \E g \in GuessLines : OracleReject(g)
  \/ \E g \in GuessLines : OracleScore(g)

Spec == Init /\ [][Next]_vars

\* ------------------------------------ the two programs played against each
\* other: every guess doGuesses prints is typed into runGame, and every
\* result runGame prints is typed into doGuesses.
InitRoundTrip ==
  /\ InitSolver
  /\ InitOracle
  /\ pc = "Proposing"
  /\ opc = "AwaitingGuess"
  /\ word \in Range(AllWords)
  /\ wire = NoLine

RelayPropose ==
  /\ wire.to = "none"
  /\ ProposeEff
  /\ wire' = [to |-> "oracle", line |-> myGuess']
  /\ UNCHANGED oracleVars

RelayScore ==
  /\ wire.to = "oracle"
  /\ OracleScoreEff(wire.line)
  /\ wire' = [to |-> "solver", line |-> responseStr']
  /\ UNCHANGED solverVars

RelayReject ==
  /\ wire.to = "oracle"
  /\ OracleRejectEff(wire.line)
  /\ wire' = [to |-> "lost", line |-> << >>]
  /\ UNCHANGED solverVars

RelayIngest ==
  /\ wire.to = "solver"
  /\ IngestEff(wire.line)
  /\ wire' = NoLine
  /\ UNCHANGED oracleVars

NextRoundTrip == RelayPropose \/ RelayScore \/ RelayReject \/ RelayIngest

SpecRoundTrip == InitRoundTrip /\ [][NextRoundTrip]_vars

\* Both programs are sequential loops that go on whenever their input is
\* there, and every line printed is typed into the other program.
SpecRoundTripFair == SpecRoundTrip /\ WF_vars(NextRoundTrip)

\* =================================================================== claims
\* Number of positions of w holding the letter ch.
Occ(w, ch) == Cardinality({ i \in 1..Len(w) : w[i] = ch })

\* runGame has just printed the result responseStr for the guess `guess`.
JustScored == omsg \in {"Result", "Congratulations!"}

\* C2: score marks position i Exact ("y") if and only if the guess and the
\* secret hold the same letter at i, so the number of Exact verdicts is the
\* number of matching positions.
C2_ExactIffMatch ==
  JustScored =>
    /\ \A i \in Positions : (responseStr[i] = "y") <=> (guess[i] = word[i])
    /\ Cardinality({ i \in Positions : responseStr[i] = "y" })
         = Cardinality({ i \in Positions : guess[i] = word[i] })

\* A result with an Exact position and a position that holds a letter of the
\* secret without being Exact.
C2_Witness ==
  /\ JustScored
  /\ \E i, j \in Positions :
       /\ responseStr[i] = "y"
       /\ responseStr[j] # "y"
       /\ Occ(word, guess[j]) > 0

\* C3: for every letter L, the number of positions marked Present ("p") for
\* L is at most the occurrences of L in the secret minus the positions where
\* guess and secret both hold L.
C3_PresentBounded ==
  JustScored =>
    \A L \in Alphabet :
      Cardinality({ i \in Positions : responseStr[i] = "p" /\ guess[i] = L })
        <= Occ(word, L)
             - Cardinality({ i \in Positions : guess[i] = L /\ word[i] = L })

\* --------------------------------------------------------------- the solver
\* w satisfies the constraints: each letter is allowed at its position and
\* every required letter occurs often enough.
Satisfies(w) ==
  /\ \A i \in Positions : w[i] \in validLetters[i]
  /\ \A L \in DOMAIN requiredLetters :
       requiredLetters[L] > 0 => Occ(w, L) >= requiredLetters[L]

\* Indices of the dictionary words that satisfy the constraints.
Candidates == { k \in 1..Len(AllWords) : Satisfies(AllWords[k]) }

\* processResponse has just run its loop over the verdict token `response`
\* for the guess myGuess.
JustIngested ==
  pc = "Proposing" /\ response \in VerdictTokens /\ loopRuns(myGuess, response)

\* C1: played against runGame with a secret of the dictionary, the secret
\* satisfies the constraints in every state of the solver session.
C1_SecretSurvives == Satisfies(word)

\* C4: the guess proposed is the first dictionary word that satisfies the
\* position sets and the required counts; there is none (and the diagnostic
\* is printed) exactly when no dictionary word satisfies them; with open
\* constraints it is the first word of the dictionary.
C4_SelectFirst ==
  pc = "AwaitingVerdict" =>
    /\ IF Candidates = {}
       THEN myGuess = << >> /\ smsg = "I could not find a matching word"
       ELSE /\ myGuess = AllWords[CHOOSE k \in Candidates :
                                    \A m \in Candidates : k <= m]
            /\ smsg = ""
    /\ ( /\ \A i \in Positions : validLetters[i] = Alphabet
         /\ DOMAIN requiredLetters = {} ) => myGuess = AllWords[1]

\* A proposal that is not the first word allowed by the position sets: an
\* earlier word is passed over for lacking a required letter.
C4_Witness ==
  /\ pc = "AwaitingVerdict"
  /\ myGuess # << >>
  /\ \E k \in 1..Len(AllWords) :
       /\ \A i \in Positions : AllWords[k][i] \in validLetters[i]
       /\ ~Satisfies(AllWords[k])
       /\ \E m \in Candidates : k < m /\ AllWords[m] = myGuess

\* C5: a position that was given Exact for letter L has the set {L} from the
\* end of that call on.
C5_ExactStays ==
  \A i \in Positions : \A L \in exactSeen[i] : validLetters[i] = {L}

\* C6: no step makes the set of a position grow.
C6_NeverGrow ==
  [][\A i \in Positions : validLetters'[i] \subseteq validLetters[i]]_vars

\* A call has replaced a set by a singleton.
C6_Witness ==
  /\ JustIngested
  /\ \E i \in Positions :
       response[i] = "y" /\ validLetters[i] = {myGuess[i]}

\* C7: requiredLetters starts empty and no step lowers the count of a letter.
C7_CountsNeverDrop ==
  /\ DOMAIN requiredLetters = {}
  /\ [][\A L \in Alphabet :
          countOf(requiredLetters', L) >= countOf(requiredLetters, L)]_vars

\* A call whose tally for a letter is below the count already required.
C7_Witness ==
  /\ JustIngested
  /\ \E L \in DOMAIN requiredLetters :
       requiredLetters[L] >
         Cardinality({ i \in Positions :
                         myGuess[i] = L /\ response[i] \in {"y", "p"} })

\* C8: a letter that an Absent verdict left in no position's set is in no
\* position's set in any later state.
C8_GoneStaysGone ==
  \A L \in absentGone : \A i \in Positions : L \notin validLetters[i]

\* A call processed after a letter was eliminated by an earlier call.
C8_Witness ==
  /\ JustIngested
  /\ \E L \in absentGone : L \notin Range(myGuess)

\* C9 (as claimed): after a verdict sequence that is not all Exact, a letter
\* that received Absent is in no position's set.
C9_AbsentEverywhere ==
  JustIngested =>
    \A i \in Positions :
      response[i] = "n" =>
        \A j \in Positions : myGuess[i] \notin validLetters[j]

\* C9 (amended): a letter that received Absent is left only at positions
\* after its last Absent position where the same sequence marks it Exact;
\* a letter left in no set is in no word proposed afterwards.
C9_AbsentExceptLaterExact ==
  /\ JustIngested =>
       \A i, j \in Positions :
         (response[i] = "n" /\ myGuess[i] \in validLetters[j]) =>
           /\ response[j] = "y"
           /\ myGuess[j] = myGuess[i]
           /\ \A k \in Positions :
                (response[k] = "n" /\ myGuess[k] = myGuess[i]) => k < j
  /\ pc = "AwaitingVerdict" =>
       \A L \in absentGone : L \notin Range(myGuess)

\* A call has eliminated a letter that received Absent.
C9_Witness ==
  /\ JustIngested
  /\ \E i \in Positions :
       /\ response[i] = "n"
       /\ \A j \in Positions : myGuess[i] \notin validLetters[j]

\* C10: once no word matches, the session is over: no response is asked for
\* or processed, and the program does not crash.
C10_ExhaustedIsTerminal ==
  /\ pc # "Crashed"
  /\ (Len(myGuess) = 0 /\ pc # "Proposing") => pc \notin {"AwaitingVerdict", "Won"}

\* C11: played against runGame with a secret of the dictionary, the solver
\* session eventually ends with the answer found and the last proposal equal
\* to the secret.
C11_EventuallyWon == <>(pc = "Won" /\ myGuess = word)

\* ---------------------------------------------------------------- the oracle
\* A line that is not the quit token and is no guess runGame accepts.
InvalidGuess(g) == g # Quit /\ (Len(g) # 5 \/ g \notin Range(AllWords))

\* C12: a guess of the wrong length or outside the dictionary gets a
\* diagnostic and no result; runGame stays at its prompt; and no step
\* changes the secret.
C12_RejectKeepsState ==
  [][ /\ word' = word
      /\ (opc = "AwaitingGuess" /\ oracleVars' # oracleVars
            /\ InvalidGuess(guess')) =>
           /\ opc' = "AwaitingGuess"
           /\ responseStr' = responseStr
           /\ omsg' \in {"Guesses must be exactly 5 lowercase letters",
                         "is not a valid word"} ]_vars

\* An unknown 5-letter word was rejected after an earlier guess was scored.
C12_Witness ==
  /\ opc = "AwaitingGuess"
  /\ omsg = "is not a valid word"
  /\ Len(guess) = 5
  /\ Len(responseStr) = 5

\* C13: with a 5-letter secret, a scored guess ends the game as won exactly
\* when its result is all Exact, which is exactly when the guess is the
\* secret; any other scored guess leaves runGame at its prompt.
C13_WonIffSecret ==
  (JustScored /\ Len(word) = 5) =>
    /\ (opc = "Won") <=> (responseStr = AllExact)
    /\ (responseStr = AllExact) <=> (guess = word)
    /\ opc # "Won" => opc = "AwaitingGuess"

\* The game was won on the secret after an earlier guess was scored.
C13_Witness ==
  /\ opc = "Won"
  /\ guess = word
  /\ responseStr = AllExact

\* ------------------------------------------------------ the solver, per call
\* This step is doGuesses handing the line response' to processResponse.
IngestStep == pc = "AwaitingVerdict" /\ pc' # "AwaitingVerdict" /\ response' # Quit

\* Number of positions of guess g whose verdict in r is Exact or Present
\* for the letter L.
Tally(g, r, L) ==
  Cardinality({ i \in Positions : g[i] = L /\ r[i] \in {"y", "p"} })

\* C14: the call reports the answer found exactly when the five verdicts are
\* Exact, the session is won exactly then, and a call that returns without
\* the answer leads back to the next proposal.
C14_SolvedIffAllExact ==
  [][IngestStep =>
       /\ (pc' = "Won") <=> (response' = AllExact)
       /\ (response' # AllExact /\ pc' # "Crashed") => pc' = "Proposing"
       /\ pc' = "Won" =>
            validLetters' = validLetters /\ requiredLetters' = requiredLetters
    ]_vars

\* The session was won on a proposal.
C14_Witness == pc = "Won" /\ response = AllExact /\ Len(myGuess) = 5

\* C15: a response whose length is not 5 is reported, changes no set and no
\* required count, does not crash, and is followed by the same proposal.
C15_WrongLengthNoChange ==
  [][ /\ (IngestStep /\ Len(response') # LETTERS_IN_WORD) =>
           /\ smsg' = "Response must be of length 5"
           /\ pc' = "Proposing"
           /\ validLetters' = validLetters
           /\ requiredLetters' = requiredLetters
      /\ ( /\ pc = "Proposing"
           /\ pc' = "AwaitingVerdict"
           /\ smsg = "Response must be of length 5" ) => myGuess' = myGuess
    ]_vars

\* The same word proposed again after a response of the wrong length.
C15_Witness ==
  /\ pc = "AwaitingVerdict"
  /\ Len(response) \in {4, 6}
  /\ Len(myGuess) = 5
  /\ \E i \in Positions : validLetters[i] # Alphabet

\* C16: a 5-character response with a character outside {y,p,n} changes no
\* set and no required count.
C16_BadCharNoChange ==
  [][(IngestStep /\ Len(response') = LETTERS_IN_WORD
        /\ \E i \in Positions : response'[i] \notin {"y", "p", "n"}) =>
       /\ validLetters' = validLetters
       /\ requiredLetters' = requiredLetters ]_vars

\* C17: the line "q" ends the session at once: doGuesses does not process
\* it and changes neither the sets nor the required counts, runGame does not
\* score it, and nothing happens after it.
C17_QuitEndsSession ==
  [][ /\ (pc = "AwaitingVerdict" /\ response' = Quit) =>
           /\ pc' = "Quit"
           /\ smsg' # "Response must be of length 5"
           /\ validLetters' = validLetters
           /\ requiredLetters' = requiredLetters
      /\ (opc = "AwaitingGuess" /\ guess' = Quit) =>
           /\ opc' = "Quit"
           /\ responseStr' = responseStr
      /\ pc = "Quit" => pc' = "Quit"
      /\ opc = "Quit" => opc' = "Quit" ]_vars

\* The solver session was quit after at least one response was processed.
C17_Witness ==
  /\ pc = "Quit"
  /\ response = Quit
  /\ \E i \in Positions : validLetters[i] # Alphabet

\* C18: after a well-formed response that is not the answer, the required
\* count of every letter is the larger of its previous value and the number
\* of Exact or Present verdicts the letter got in this guess.
C18_CountIsMax ==
  [][(IngestStep /\ response' \in VerdictTokens /\ pc' = "Proposing") =>
       \A L \in Alphabet :
         countOf(requiredLetters', L) =
           IF Tally(myGuess, response', L) > countOf(requiredLetters, L)
           THEN Tally(myGuess, response', L)
           ELSE countOf(requiredLetters, L) ]_vars

\* A letter with two Exact or Present verdicts in one guess.
C18_Witness ==
  /\ JustIngested
  /\ \E L \in Alphabet :
       Tally(myGuess, response, L) = 2 /\ countOf(requiredLetters, L) = 2

\* C19: a Present verdict for L at position i removes L from the set of
\* position i; it leaves L where it was at every position to which this
\* response applies neither an Exact verdict nor a verdict for L, and a
\* response of five Present verdicts changes each set by its own letter only.
C19_PresentOnlyHere ==
  [][(IngestStep /\ response' \in VerdictTokens /\ pc' = "Proposing") =>
       /\ \A i \in Positions :
            response'[i] = "p" =>
              /\ myGuess[i] \notin validLetters'[i]
              /\ \A j \in Positions :
                   (myGuess[j] # myGuess[i] /\ response'[j] # "y"
                      /\ \A k \in Positions :
                           myGuess[k] = myGuess[i] => response'[k] = "p") =>
                     ((myGuess[i] \in validLetters'[j])
                        <=> (myGuess[i] \in validLetters[j]))
       /\ (\A i \in Positions : response'[i] = "p") =>
            \A j \in Positions :
              validLetters'[j] = validLetters[j] \ {myGuess[j]} ]_vars

\* A letter marked Present is still valid at another position.
C19_Witness ==
  /\ JustIngested
  /\ \E i, j \in Positions :
       /\ response[i] = "p"
       /\ j # i
       /\ myGuess[i] \in validLetters[j]

\* C20: after a y/p/n response other than yyyyy the guess it was given for no
\* longer satisfies the constraints, now or later; so no word is proposed
\* again after such a response, and the number of such responses in a
\* session is at most the number of dictionary words.
C20_GuessEliminated ==
  /\ JustIngested => ~Satisfies(myGuess)
  /\ \A w \in tried : ~Satisfies(w)
  /\ pc = "AwaitingVerdict" => myGuess \notin tried
  /\ nVerdicts = Cardinality(tried)
  /\ nVerdicts <= Len(AllWords)

\* A third proposal, after two responses that were processed.
C20_Witness ==
  /\ pc = "AwaitingVerdict"
  /\ Len(myGuess) = 5
  /\ nVerdicts = 2

\* Sum of the required counts of the letters in S.
RECURSIVE SumCounts(_, _)
SumCounts(m, S) ==
  IF S = {} THEN 0
  ELSE LET L == CHOOSE x \in S : TRUE
       IN  m[L] + SumCounts(m, S \ {L})

\* C21: whatever responses were supplied, the required count of a letter is
\* at most the number of times the letter occurs in the guess processResponse
\* was last called for, and the required counts add up to at most 5.
C21_CountsWithinGuess ==
  /\ (pc \in {"Proposing", "Won"} /\ Len(myGuess) = LETTERS_IN_WORD) =>
       \A L \in DOMAIN requiredLetters :
         requiredLetters[L] <= Occ(myGuess, L)
  /\ SumCounts(requiredLetters, DOMAIN requiredLetters) <= LETTERS_IN_WORD

\* A count of 2 kept from an earlier guess, after a guess whose own tally for
\* the letter is lower.
C21_Witness ==
  /\ JustIngested
  /\ nVerdicts >= 2
  /\ \E L \in DOMAIN requiredLetters :
       /\ requiredLetters[L] = 2
       /\ Tally(myGuess, response, L) < 2

====
